---- MODULE Spec2Model ----
(* Model of the Vietnam enterprise-survey analysis scripts: make_clean_file *)
(* (prepare_data.py / merge_filter.py), the loader, segment extractor,     *)
(* Table 1 loop and pivot of analyze_data.py, the fallback pivot and the    *)
(* significance loops and sorts of correlation_significance.py, get_value   *)
(* of analysis.py, main() of pre.py, the pivot of old/short_ana_2.py and    *)
(* filter_country_contains_viet.  Tables are sequences of records;          *)
(* a script is a chain of stages, one action per stage, and an uncaught     *)
(* exception ends the script.                                               *)
EXTENDS Integers, Sequences, FiniteSets, TLC

VARIABLES source, lookup, clean, data, extracted, getv, table1, pivoted,
          csvFile, corr_matrix, results, pc, err,
          disk, frame, stdout, detailed,
          converted, vietnam

vars == <<source, lookup, clean, data, extracted, getv, table1, pivoted,
          csvFile, corr_matrix, results, pc, err,
          disk, frame, stdout, detailed,
          converted, vietnam>>

(* ---------------------------------------------------------------- bounds *)
MaxRows == 3
MaxSegs == 4
MaxSrc == 3
MaxLookup == 2

(* ------------------------------------------------------- missing markers *)
\* numpy.nan, Python None and the '' blank of Table 1, as numbers outside the
\* range of every value, standard error, count and correlation of the model.
NaN == 9999
None == 9998
Blank == 9997

(* ------------------------------------------------------ program constants *)
\* The first code of inn_indicators (the list is ['t5','t7','t9','bready_t1']).
inn_indicators == <<"t5">>
\* Two codes of corr_indicators in the order of the list ('t5', ..., 'perf3', ...).
corr_indicators == <<"t5", "perf3">>
exclude_values == {"_sample", "fieldworkdate"}
SizeSubcuts == <<"Small (5-19)", "Medium (20-99)", "Large (100+)">>

Range(s) == {s[i] : i \in 1..Len(s)}

\* The NaN that pd.read_csv puts in a text column for an empty field.
NaNText == "NaN"

\* Python's str ordering (code point order) on the strings of the model, as
\* used by pandas when it sorts the pivot's index and columns; a missing
\* label comes before every string of its level.
StrOrder == <<NaNText, "All", "Exporter Type", "Large (100+)", "Manufacturing",
              "Medium (20-99)", "Non-exporter", "Sector", "Size", "Small (5-19)",
              "bready_comp1", "perf3", "t5">>
Rank(s) == CHOOSE i \in 1..Len(StrOrder) : StrOrder[i] = s
StrLess(a, b) == Rank(a) < Rank(b)
SegLess(a, b) == StrLess(a[1], b[1]) \/ (a[1] = b[1] /\ StrLess(a[2], b[2]))

\* The rows of s at the indices that satisfy P, in order (boolean indexing).
Where(s, P(_)) ==
  LET idx == SelectSeq([i \in 1..Len(s) |-> i], P)
  IN [k \in 1..Len(idx) |-> s[idx[k]]]

\* S in ascending order of Less.
SortSetBy(S, Less(_, _)) ==
  [k \in 1..Cardinality(S) |->
     CHOOSE x \in S : Cardinality({y \in S : Less(y, x)}) = k - 1]

(* ----------------------------------------------------------------- loader *)
\* A coercion that turns text that is no number into 0.
to_numeric_zero(t) ==
  CASE t = "1" -> 1 [] t = "2" -> 2 [] t = "3" -> 3 [] OTHER -> 0

\* pd.to_numeric(errors='coerce') after replace('.', nan).
to_numeric(t) == CASE t = "1" -> 1 [] t = "2" -> 2 [] t = "3" -> 3 [] OTHER -> NaN

CoerceRow(r) ==
  [r EXCEPT !.value = to_numeric(r.value), !.se = to_numeric(r.se),
            !.N = to_numeric(r.N)]

\* pd.read_csv on the clean file: an empty subcut field is read as NaN (the
\* other text fields of the model's files are never empty).
read_csv(file) ==
  [i \in 1..Len(file) |->
     [file[i] EXCEPT !.subcut = IF file[i].subcut = "" THEN NaNText ELSE file[i].subcut]]

LoadData(file) == [i \in 1..Len(file) |-> CoerceRow(read_csv(file)[i])]

(* ------------------------------------------------------ segment extractor *)
Project(r) == [indicator |-> r.indicator, value |-> r.value, se |-> r.se, N |-> r.N]

extract_metrics_wildcard(df, indicators, cut, subcut) ==
  LET f == Where(df, LAMBDA i : /\ (cut = "All" \/ df[i].cut = cut)
                               /\ (subcut = "All" \/ df[i].subcut = subcut)
                               /\ df[i].indicator \in Range(indicators))
  IN [k \in 1..Len(f) |-> Project(f[k])]

extract_metrics_dedup(df, indicators, cut, subcut) ==
  LET f == Where(df, LAMBDA i : /\ df[i].cut = cut /\ df[i].subcut = subcut
                               /\ df[i].indicator \in Range(indicators)
                               /\ ~\E j \in (i+1)..Len(df) :
                                     /\ df[j].cut = cut /\ df[j].subcut = subcut
                                     /\ df[j].indicator = df[i].indicator)
  IN [k \in 1..Len(f) |-> Project(f[k])]

extract_metrics(df, indicators, cut, subcut) ==
  LET f == Where(df, LAMBDA i : /\ df[i].cut = cut /\ df[i].subcut = subcut
                               /\ df[i].indicator \in Range(indicators))
  IN [k \in 1..Len(f) |-> Project(f[k])]

\* analysis.py: the value of the first matching row, None when there is none.
get_value(df, cut, subcut, indicator) ==
  LET row == Where(df, LAMBDA i : /\ df[i].cut = cut /\ df[i].subcut = subcut
                                 /\ df[i].indicator = indicator)
  IN IF Len(row) > 0 THEN row[1].value ELSE "None"

(* ------------------------------------------------------------ Table 1 *)
SizeRows(df, k) ==
  LET sizes == Where(df, LAMBDA i : df[i].cut = "Size")
      sub == Where(sizes, LAMBDA i : sizes[i].subcut = SizeSubcuts[k])
  IN extract_metrics(sub, inn_indicators, "Size", SizeSubcuts[k])

HasIndicator(rows, ind) == \E i \in 1..Len(rows) : rows[i].indicator = ind
FirstOf(rows, ind) == rows[CHOOSE i \in 1..Len(rows) :
                        /\ rows[i].indicator = ind
                        /\ \A j \in 1..(i-1) : rows[j].indicator # ind]

\* s_row['value'] on pd.Series([np.nan]*4), whose index is 0..3, raises
\* KeyError: the loop fails at the first indicator that a size segment lacks.
Table1Raises(df) ==
  \E n \in 1..Len(inn_indicators) : \E k \in 1..Len(SizeSubcuts) :
     ~HasIndicator(SizeRows(df, k), inn_indicators[n])

BlankIfNaN(x) == IF x = NaN THEN Blank ELSE x

Table1Row(df, ind) ==
  LET s_row == FirstOf(SizeRows(df, 1), ind)
      m_row == FirstOf(SizeRows(df, 2), ind)
      l_row == FirstOf(SizeRows(df, 3), ind)
  IN [Indicator |-> ind,
      s_val |-> BlankIfNaN(s_row.value), s_se |-> BlankIfNaN(s_row.se),
      s_N |-> BlankIfNaN(s_row.N),
      m_val |-> BlankIfNaN(m_row.value), m_se |-> BlankIfNaN(m_row.se),
      m_N |-> BlankIfNaN(m_row.N),
      l_val |-> BlankIfNaN(l_row.value),
      l_se |-> IF s_row.se # NaN THEN l_row.se ELSE Blank,
      l_N |-> BlankIfNaN(l_row.N)]

Table1(df) == [n \in 1..Len(inn_indicators) |-> Table1Row(df, inn_indicators[n])]

\* old/short_ana_2.py lines 42-52: the same loop, with the Large standard
\* error tested on the Large row.
Table1Row_old(df, ind) ==
  [Table1Row(df, ind) EXCEPT !.l_se = BlankIfNaN(FirstOf(SizeRows(df, 3), ind).se)]

Table1_old(df) == [n \in 1..Len(inn_indicators) |-> Table1Row_old(df, inn_indicators[n])]

(* -------------------------------------------------------------- pivot *)
Key(r) == <<r.cut, r.subcut, r.indicator>>
Seg(r) == <<r.cut, r.subcut>>

\* all_groups[...isin(corr_indicators)]: subcut != '' and a requested code.
FilterCorr(df) ==
  Where(df, LAMBDA i : df[i].subcut # "" /\ df[i].indicator \in Range(corr_indicators))

\* old/short_ana_2.py lines 56 and 62 (visualize.py 101-102): the cut is one
\* of three, subcut != '' and a requested code.
FilterCuts(df) ==
  Where(df, LAMBDA i : /\ df[i].cut \in {"All", "Size", "Exporter Type"}
                       /\ df[i].subcut # ""
                       /\ df[i].indicator \in Range(corr_indicators))

drop_duplicates_last(df) ==
  Where(df, LAMBDA i : ~\E j \in (i+1)..Len(df) : Key(df[j]) = Key(df[i]))

drop_duplicates(df) ==
  Where(df, LAMBDA i : ~\E j \in 1..(i-1) : Key(df[j]) = Key(df[i]))

HasDuplicates(df) ==
  \E i, j \in 1..Len(df) : i < j /\ Key(df[i]) = Key(df[j])

\* The index of the pivot in first-seen order (an unsorted pivot).
IndexFirstSeen(df) ==
  LET first == Where(df, LAMBDA i : ~\E j \in 1..(i-1) : Seg(df[j]) = Seg(df[i]))
  IN [k \in 1..Len(first) |-> Seg(first[k])]

\* pandas sorts the unstacked index: rows ascend by (cut, subcut).
PivotIndex(df) == SortSetBy({Seg(df[i]) : i \in 1..Len(df)}, SegLess)

\* ... and the columns: the codes that occur, ascending.
PivotColumns(df) == SortSetBy({df[i].indicator : i \in 1..Len(df)}, StrLess)

Cell(df, seg, code) ==
  IF \E i \in 1..Len(df) : Key(df[i]) = <<seg[1], seg[2], code>>
  THEN df[CHOOSE i \in 1..Len(df) : Key(df[i]) = <<seg[1], seg[2], code>>].value
  ELSE NaN

\* filtered.pivot(index=['cut','subcut'], columns='indicator',
\*                values='value').reset_index(), for df without repeated keys.
Pivot(df) ==
  LET index == PivotIndex(df)
      columns == PivotColumns(df)
  IN [cols |-> columns,
      rows |-> [k \in 1..Len(index) |->
                 [cut |-> index[k][1], subcut |-> index[k][2],
                  vals |-> [c \in Range(columns) |-> Cell(df, index[k], c)]]]]

EmptyWide == [cols |-> <<>>, rows |-> <<>>]

\* dropna(how='all', subset=...) raises KeyError for a missing column.
DropNaRaises(wide, subset) == \E n \in 1..Len(subset) : subset[n] \notin Range(wide.cols)

dropna_any(wide, subset) ==
  [cols |-> wide.cols,
   rows |-> Where(wide.rows, LAMBDA i :
              \A n \in 1..Len(subset) : wide.rows[i].vals[subset[n]] # NaN)]

dropna(wide, subset) ==
  [cols |-> wide.cols,
   rows |-> Where(wide.rows, LAMBDA i :
              \E n \in 1..Len(subset) : wide.rows[i].vals[subset[n]] # NaN)]

(* -------------------------------------------------- Pearson correlation *)
RECURSIVE SumOver(_, _)
SumOver(f, S) ==
  IF S = {} THEN 0
  ELSE LET i == CHOOSE j \in S : TRUE IN f[i] + SumOver(f, S \ {i})

\* A coefficient is kept exact: r = cov / sqrt(vv), or NaN.
NaNr == [nan |-> TRUE, cov |-> 0, vv |-> 1]

\* DataFrame.corr(): Pearson over the pairwise-complete rows, min_periods = 1;
\* NaN when no row is complete or the divisor sqrt(ssqdm_x * ssqdm_y) is 0.
Corr(wide, a, b) ==
  LET R == wide.rows
      I == {i \in 1..Len(R) : R[i].vals[a] # NaN /\ R[i].vals[b] # NaN}
      m == Cardinality(I)
      x == [i \in I |-> R[i].vals[a]]
      y == [i \in I |-> R[i].vals[b]]
      Sx == SumOver(x, I)
      Sy == SumOver(y, I)
      Sxx == SumOver([i \in I |-> x[i] * x[i]], I)
      Syy == SumOver([i \in I |-> y[i] * y[i]], I)
      Sxy == SumOver([i \in I |-> x[i] * y[i]], I)
      cov == m * Sxy - Sx * Sy
      vv == (m * Sxx - Sx * Sx) * (m * Syy - Sy * Sy)
  IN IF m < 1 \/ vv = 0 THEN NaNr ELSE [nan |-> FALSE, cov |-> cov, vv |-> vv]

\* The pair has fewer than 2 pairwise-complete rows or a column of zero variance.
Degenerate(wide, a, b) ==
  LET R == wide.rows
      I == {i \in 1..Len(R) : R[i].vals[a] # NaN /\ R[i].vals[b] # NaN}
  IN \/ Cardinality(I) < 2
     \/ \A i, j \in I : R[i].vals[a] = R[j].vals[a]
     \/ \A i, j \in I : R[i].vals[b] = R[j].vals[b]

\* round(r, 2) in hundredths (round half to even); NaN stays NaN.
Round2(r) ==
  IF r.nan THEN NaN
  ELSE LET up == {j \in 1..100 : (2*j - 1) * (2*j - 1) * r.vv <= 40000 * r.cov * r.cov}
           k == Cardinality(up)
           tie == k > 0 /\ (2*k - 1) * (2*k - 1) * r.vv = 40000 * r.cov * r.cov
           mag == IF tie /\ k % 2 = 1 THEN k - 1 ELSE k
       IN IF r.cov < 0 THEN 0 - mag ELSE mag

fillna0(x) == IF x = NaN THEN 0 ELSE x

\* correlation_significance.py: pivoted[corr_indicators].corr()
CorrMatrixOf(inds, wide) ==
  [a \in Range(inds) |-> [b \in Range(inds) |-> Corr(wide, a, b)]]

CorrMatrix(wide) == CorrMatrixOf(corr_indicators, wide)

\* analyze_data.py: pivoted[corr_indicators].corr().round(2).fillna(0)
DisplayMatrix(wide) ==
  [a \in Range(corr_indicators) |->
     [b \in Range(corr_indicators) |-> fillna0(Round2(Corr(wide, a, b)))]]

(* ------------------------------------------------ significance of a pair *)
\* t is NaN, +-infinity or finite with t^2 = num / den and the sign sgn.
NaNt == [kind |-> "nan", sgn |-> 0, num |-> 0, den |-> 1]

\* The formula of line 113 without the guard of lines 110-111.
calculate_t_statistic_unguarded(r, n) ==
  IF r = NaN \/ r = 100 \/ r = -100 \/ n - 2 < 0 THEN NaNt
  ELSE [kind |-> "fin",
        sgn |-> IF r > 0 /\ n > 2 THEN 1 ELSE IF r < 0 /\ n > 2 THEN -1 ELSE 0,
        num |-> r * r * (n - 2), den |-> 10000 - r * r]

\* r in hundredths (already rounded by the caller), n the number of segments.
calculate_t_statistic(r, n) ==
  IF r = NaN THEN NaNt
  ELSE IF r = 100 \/ r = -100
       THEN [kind |-> "inf", sgn |-> IF r > 0 THEN 1 ELSE -1, num |-> 0, den |-> 1]
  ELSE IF n - 2 < 0 THEN NaNt
  ELSE [kind |-> "fin",
        sgn |-> IF r > 0 /\ n > 2 THEN 1 ELSE IF r < 0 /\ n > 2 THEN -1 ELSE 0,
        num |-> r * r * (n - 2), den |-> 10000 - r * r]

\* The square of scipy.stats.t.ppf(1 - alpha/2, df) in thousandths, for
\* alpha = 0.05, 0.01 and 0.001 (columns 1..3) and df = 1..4 (rows).
CriticalT2 == << <<161448, 4052181, 405284069>>, <<18513, 98503, 998500>>,
                 <<10128, 34116, 167029>>, <<7709, 21198, 74137>> >>

\* |t| exceeds the critical value: t^2 in thousandths against its square.
Exceeds(t, df, col) == (t.num * 1000) \div t.den > CriticalT2[df][col]

\* The two-tailed p-value in units of 0.0005 (2 is 0.001, 20 is 0.01, 100 is
\* 0.05, 2000 is 1.0); NaN when t is NaN or df <= 0 (t.cdf gives nan).  A
\* finite t is placed by the tabulated critical values, and the p-value kept
\* is one point of the interval they bracket: 0.0005, 0.005, 0.03 or 0.5.
get_p_value(t, df) ==
  IF t.kind = "inf" THEN 0
  ELSE IF t.kind = "nan" \/ df <= 0 THEN NaN
  ELSE IF t.num = 0 THEN 2000
  ELSE IF Exceeds(t, df, 3) THEN 1
  ELSE IF Exceeds(t, df, 2) THEN 10
  ELSE IF Exceeds(t, df, 1) THEN 60
  ELSE 1000

\* The tiers with <= in place of <.
get_significance_le(p) ==
  IF p # NaN /\ p <= 2 THEN "***"
  ELSE IF p # NaN /\ p <= 20 THEN "**"
  ELSE IF p # NaN /\ p <= 100 THEN "*"
  ELSE "ns"

\* Every comparison with NaN is false, so NaN falls through to 'ns'.
get_significance(p) ==
  IF p # NaN /\ p < 2 THEN "***"
  ELSE IF p # NaN /\ p < 20 THEN "**"
  ELSE IF p # NaN /\ p < 100 THEN "*"
  ELSE "ns"

\* The ladder and the direction with >= in place of >.
get_strength_description_ge(r, p) ==
  LET abs_r == IF r = NaN THEN NaN ELSE IF r < 0 THEN 0 - r ELSE r
      strength == IF abs_r # NaN /\ abs_r >= 70 THEN "Very strong"
                  ELSE IF abs_r # NaN /\ abs_r >= 50 THEN "Strong"
                  ELSE IF abs_r # NaN /\ abs_r >= 30 THEN "Moderate"
                  ELSE "Weak"
      direction == IF r # NaN /\ r >= 0 THEN "positive" ELSE "negative"
      significance == IF p # NaN /\ p < 2 THEN "highly significant"
                      ELSE IF p # NaN /\ p < 20 THEN "significant"
                      ELSE IF p # NaN /\ p < 100 THEN "marginally significant"
                      ELSE "not significant"
  IN <<strength, " ", direction, " correlation, ", significance>>

\* The f-string of line 195 as the sequence of its pieces.
get_strength_description(r, p) ==
  LET abs_r == IF r = NaN THEN NaN ELSE IF r < 0 THEN 0 - r ELSE r
      strength == IF abs_r # NaN /\ abs_r > 70 THEN "Very strong"
                  ELSE IF abs_r # NaN /\ abs_r > 50 THEN "Strong"
                  ELSE IF abs_r # NaN /\ abs_r > 30 THEN "Moderate"
                  ELSE "Weak"
      direction == IF r # NaN /\ r > 0 THEN "positive" ELSE "negative"
      significance == IF p # NaN /\ p < 2 THEN "highly significant"
                      ELSE IF p # NaN /\ p < 20 THEN "significant"
                      ELSE IF p # NaN /\ p < 100 THEN "marginally significant"
                      ELSE "not significant"
  IN <<strength, " ", direction, " correlation, ", significance>>

\* The key relationship of the list whose two codes the model keeps.
key_relationships == << <<"t5", "perf3">> >>

\* np.inf in the hundredths of a rounded t: above every finite value.
Inf == 9996

\* round(t, 2) in hundredths: NaN, +-Inf or the rounded root of num / den.
RoundT(t) ==
  IF t.kind = "nan" THEN NaN
  ELSE IF t.kind = "inf" THEN t.sgn * Inf
  ELSE LET q == (40000 * t.num) \div t.den
           up == {j \in 1..2000 : (2*j - 1) * (2*j - 1) <= q}
       IN t.sgn * Cardinality(up)

\* n = len(pivoted), line 198, and a count of the rows without any missing value.
len_complete(wide) ==
  Cardinality({i \in 1..Len(wide.rows) :
                 \A c \in Range(corr_indicators) : wide.rows[i].vals[c] # NaN})

len(wide) == Len(wide.rows)

\* One pass of the loop body, lines 239-264, for a coefficient already
\* rounded by line 240; idx is the row's label in the DataFrame and n the
\* module-level sample size the pass reads (not a column of the table).
StatRow(r, n, pair, idx) ==
  LET t == calculate_t_statistic(r, n)
      p == get_p_value(t, n - 2)
  IN [idx |-> idx, n |-> n, ind1 |-> pair[1], ind2 |-> pair[2], r |-> r, t |-> t,
      tval |-> RoundT(t), p |-> p,
      sig |-> get_significance(p), interp |-> get_strength_description(r, p)]

KeyRow(m, n, pair) == StatRow(Round2(m[pair[1]][pair[2]]), n, pair, 0)

\* The loop of lines 232-264 over a list of relationships.
KeyResultsOf(rels, m, n) ==
  [k \in 1..Len(rels) |-> [KeyRow(m, n, rels[k]) EXCEPT !.idx = k - 1]]

KeyResults(m, n) == KeyResultsOf(key_relationships, m, n)

\* 'Yes' if abs(t) > critical_t else 'No', lines 204 and 421: critical_t is
\* stats.t.ppf(0.975, df), nan for df <= 0, and a comparison with nan is false.
significant_1pct(t, df) ==
  IF t.kind = "nan" \/ df <= 0 THEN "No"
  ELSE IF t.kind = "inf" \/ Exceeds(t, df, 2) THEN "Yes" ELSE "No"

significant(t, df) ==
  IF t.kind = "nan" \/ df <= 0 THEN "No"
  ELSE IF t.kind = "inf" \/ Exceeds(t, df, 1) THEN "Yes" ELSE "No"

\* The two nested loops without the test i < j: every ordered pair of
\* distinct codes.
UpperPairsOf_all(inds) ==
  LET n == Len(inds)
      S == {<<i, j>> \in (1..n) \X (1..n) : i # j}
      before(a, b) == a[1] < b[1] \/ (a[1] = b[1] /\ a[2] < b[2])
      ord == SortSetBy(S, before)
  IN [k \in 1..Len(ord) |-> <<inds[ord[k][1]], inds[ord[k][2]]>>]

\* The upper triangle of a list of codes in enumeration order, lines 403-405.
UpperPairsOf(inds) ==
  LET n == Len(inds)
      S == {<<i, j>> \in (1..n) \X (1..n) : i < j}
      before(a, b) == a[1] < b[1] \/ (a[1] = b[1] /\ a[2] < b[2])
      ord == SortSetBy(S, before)
  IN [k \in 1..Len(ord) |-> <<inds[ord[k][1]], inds[ord[k][2]]>>]

UpperPairs == UpperPairsOf(corr_indicators)

\* Lines 407-422: one pass of the all-pairs loop for a rounded coefficient.
DetailRow(r, n, pair, idx) ==
  LET t == calculate_t_statistic(r, n)
      p == get_p_value(t, n - 2)
  IN [idx |-> idx, n |-> n, ind1 |-> pair[1], ind2 |-> pair[2], r |-> r, t |-> t,
      tval |-> RoundT(t), p |-> p, sig |-> get_significance(p),
      significant |-> significant(t, n - 2)]

DetailedRow(m, n, pair, idx) == DetailRow(Round2(m[pair[1]][pair[2]]), n, pair, idx)

DetailedResultsOf(inds, m, n) ==
  [k \in 1..Len(UpperPairsOf(inds)) |-> DetailedRow(m, n, UpperPairsOf(inds)[k], k - 1)]

DetailedResults(m, n) == DetailedResultsOf(corr_indicators, m, n)

\* abs of a rounded t; NaN stays NaN.
AbsT(x) == IF x = NaN THEN NaN ELSE IF x < 0 THEN 0 - x ELSE x

Perms(n) == {f \in [1..n -> 1..n] : \A i, j \in 1..n : i # j => f[i] # f[j]}

\* sort_values(by |t|, ascending=False) with the default kind='quicksort':
\* |t| never increases down the table and the NaN rows come last in their
\* input order (na_position='last'); quicksort is not stable, so the order
\* among rows of equal |t| is any order.
sort_values(rows) ==
  LET n == Len(rows)
      key(i) == AbsT(rows[i].tval)
      ok(f) == \A i, j \in 1..n : i < j =>
                 \/ key(f[i]) # NaN /\ key(f[j]) = NaN
                 \/ key(f[i]) = NaN /\ key(f[j]) = NaN /\ f[i] < f[j]
                 \/ key(f[i]) # NaN /\ key(f[j]) # NaN /\ key(f[i]) >= key(f[j])
  IN {[i \in 1..n |-> rows[f[i]]] : f \in {g \in Perms(n) : ok(g)}}

(* ------------------------------------------ filter_country_contains_viet *)
\* A CSV file is its header and its rows, a row the sequence of its fields
\* and a field the sequence of the code points of its text.
NoCsv == [header |-> <<>>, rows |-> <<>>]

\* The UTF-8 bytes of a text of code points below 2048.
RECURSIVE Encode(_)
Encode(t) ==
  IF t = <<>> THEN <<>>
  ELSE LET c == Head(t)
       IN (IF c < 128 THEN <<c>> ELSE <<192 + (c \div 64), 128 + (c % 64)>>)
            \o Encode(Tail(t))

\* open(input_file, encoding="latin1") on the file that convert_dta_to_csv
\* wrote with to_csv (UTF-8): every byte of a field is read as one character.
Latin1Read(t) == Encode(t)

\* str.lower() on A-Z and on the Latin-1 capitals.
Lower(t) ==
  [i \in 1..Len(t) |->
     IF t[i] \in 65..90 \/ (t[i] \in 192..222 /\ t[i] # 215) THEN t[i] + 32 ELSE t[i]]

\* pat in t
Contains(t, pat) ==
  \E i \in 1..(Len(t) - Len(pat) + 1) : SubSeq(t, i, i + Len(pat) - 1) = pat

\* "viet nam2023"
viet_nam2023 == <<118, 105, 101, 116, 32, 110, 97, 109, 50, 48, 50, 51>>

ColumnOf(header, name) == CHOOSE k \in 1..Len(header) : header[k] = name

\* The loop of lines 22-25 over the rows that csv.DictReader yields: a short
\* row has None for its missing fields (None.lower() raises AttributeError),
\* a long row has its extra fields under the key None, which DictWriter
\* refuses with ValueError; None is written as an empty field.  The result
\* is the rows written and the exception that ended the loop, if any.
RECURSIVE WriteRows(_, _)
WriteRows(header, rows) ==
  IF rows = <<>> THEN [rows |-> <<>>, exc |-> "none"]
  ELSE LET row == [k \in 1..Len(Head(rows)) |-> Latin1Read(Head(rows)[k])]
           has == "country" \in Range(header)
           c == ColumnOf(header, "country")
           rest == WriteRows(header, Tail(rows))
       IN IF has /\ c > Len(row)
          THEN [rows |-> <<>>, exc |-> "AttributeError"]
          ELSE IF has /\ Contains(Lower(row[c]), viet_nam2023)
          THEN IF Len(row) > Len(header)
               THEN [rows |-> <<>>, exc |-> "ValueError"]
               ELSE [rows |-> << [k \in 1..Len(header) |->
                                    IF k <= Len(row) THEN row[k] ELSE <<>>] >>
                                \o rest.rows,
                     exc |-> rest.exc]
          ELSE rest

\* The output file as a UTF-8 reader sees it, and the exception raised.
filter_country_contains_viet(input) ==
  LET res == WriteRows(input.header, input.rows)
  IN [file |-> [header |-> input.header, rows |-> res.rows], exc |-> res.exc]

(* ------------------------------------------------------ make_clean_file *)
\* str.replace(" ", "") on the indicator texts of the model.
RemoveSpaces(t) ==
  CASE t = "_sam ple" -> "_sample"
    [] t = "t 5" -> "t5"
    [] OTHER -> t

AddCols(r, topic, name) ==
  [f \in DOMAIN r \cup {"Topic", "EnglishName"} |->
     IF f = "Topic" THEN topic ELSE IF f = "EnglishName" THEN name ELSE r[f]]

\* The left merge keeps the left order; a left row is repeated once per
\* matching lookup row, and gets empty Topic / EnglishName without a match.
RECURSIVE MergeLeft(_, _)
MergeLeft(left, right) ==
  IF left = <<>> THEN <<>>
  ELSE LET r == Head(left)
           hit == Where(right, LAMBDA i : right[i].FieldName = r.indicator)
           out == IF hit = <<>>
                  THEN << AddCols(r, "", "") >>
                  ELSE [k \in 1..Len(hit) |->
                          AddCols(r, hit[k].Topic, hit[k].EnglishName)]
       IN out \o MergeLeft(Tail(left), right)

StripIndicator(df) ==
  [i \in 1..Len(df) |-> [df[i] EXCEPT !.indicator = RemoveSpaces(df[i].indicator)]]

ExcludeNone(df) == df

Exclude(df) == Where(df, LAMBDA i : df[i].indicator \notin exclude_values)

make_clean_file(vietnam_df, indicator_df) ==
  LET ind == [i \in 1..Len(indicator_df) |->
                [indicator_df[i] EXCEPT !.FieldName = RemoveSpaces(indicator_df[i].FieldName)]]
  IN MergeLeft(Exclude(StripIndicator(vietnam_df)), ind)

\* Every table of at most n rows drawn from rows.
Tables(rows, n) == UNION {[1..k -> rows] : k \in 0..n}

\* Rows of a survey extract for the overall segment: website adoption at
\* either of two levels, productivity growth at one.
RerunRows ==
  {[cut |-> "All", subcut |-> "All", indicator |-> "t5", value |-> v,
    se |-> ".", N |-> "."] : v \in {"1", "2"}}
    \cup {[cut |-> "All", subcut |-> "All", indicator |-> "perf3", value |-> "1",
           se |-> ".", N |-> "."]}

(* ================================================================ actions *)
\* The columns make_clean_file writes, a readable file with all of them in a
\* writable directory, and the None that load_data returns on failure.
FileColumns == {"cut", "subcut", "indicator", "Topic", "EnglishName", "value", "se", "N"}
DiskOK == [readable |-> TRUE, cols |-> FileColumns, writable |-> TRUE]
NoFrame == [loaded |-> FALSE, cols |-> {}, rows |-> <<>>]

NoErr == [exc |-> "none", at |-> "none"]
Raise(exc, at) == [exc |-> exc, at |-> at]

\* prepare_data.py / main.py, filter_country_contains_viet: writes
\* vietnam_2023_only.csv; an exception in the loop is not caught.
FilterCountry ==
  /\ pc = "filter"
  /\ LET res == filter_country_contains_viet(converted)
     IN /\ vietnam' = res.file
        /\ IF res.exc = "none"
           THEN pc' = "filtered" /\ UNCHANGED err
           ELSE pc' = "failed" /\ err' = Raise(res.exc, "filter")
  /\ UNCHANGED <<converted, disk, frame, stdout, detailed,
                 source, lookup, clean, data, extracted, getv, table1, pivoted,
                 csvFile, corr_matrix, results>>

\* prepare_data.py, make_clean_file: writes vietnam_data_clean.csv.
MakeCleanFile ==
  /\ pc = "prep"
  /\ clean' = make_clean_file(source, lookup)
  /\ pc' = "idle"
  /\ UNCHANGED <<converted, vietnam, disk, frame, stdout, detailed,
                 source, lookup, data, extracted, getv, table1, pivoted,
                 csvFile, corr_matrix, results, err>>

\* analyze_data.py lines 6-12: read the clean file and coerce value, se, N.
\* read_csv raises on an unreadable file and line 9, 11 or 12 raises KeyError
\* on a missing column; neither is caught.
AD_Load ==
  /\ pc = "idle"
  /\ IF ~disk.readable
     THEN /\ err' = Raise("FileNotFoundError", "load")
          /\ pc' = "failed"
          /\ UNCHANGED data
     ELSE IF ~({"value", "se", "N"} \subseteq disk.cols)
     THEN /\ err' = Raise("KeyError", "load")
          /\ pc' = "failed"
          /\ UNCHANGED data
     ELSE /\ data' = LoadData(clean)
          /\ pc' = "ad_loaded"
          /\ UNCHANGED err
  /\ UNCHANGED <<converted, vietnam, disk, frame, stdout, detailed,
                 source, lookup, clean, extracted, getv, table1, pivoted,
                 csvFile, corr_matrix, results>>

\* analyze_data.py lines 29-73: the Table 1 loop.
AD_Table1 ==
  /\ pc = "ad_loaded"
  /\ IF Table1Raises(data)
     THEN /\ err' = Raise("KeyError", "table1")
          /\ pc' = "failed"
          /\ UNCHANGED table1
     ELSE /\ table1' = Table1(data)
          /\ pc' = "ad_table1"
          /\ UNCHANGED err
  /\ UNCHANGED <<converted, vietnam, disk, frame, stdout, detailed,
                 source, lookup, clean, data, extracted, getv, pivoted,
                 csvFile, corr_matrix, results>>

\* Lines 84-93 of analyze_data.py / 56-63 of correlation_significance.py.
PivotStage(from, to) ==
  /\ pc = from
  /\ LET filtered == drop_duplicates(FilterCorr(data))
     IN IF HasDuplicates(filtered)
        THEN /\ err' = Raise("ValueError", "pivot")
             /\ pc' = "failed"
             /\ UNCHANGED pivoted
        ELSE /\ pivoted' = Pivot(filtered)
             /\ pc' = to
             /\ UNCHANGED err
  /\ UNCHANGED <<converted, vietnam, disk, frame, stdout, detailed,
                 source, lookup, clean, data, extracted, getv, table1,
                 csvFile, corr_matrix, results>>

\* An export that appends to Pivoted_Data.csv instead of replacing it.
DropNaStage_append(from, to) ==
  /\ pc = from
  /\ IF DropNaRaises(pivoted, corr_indicators)
     THEN /\ err' = Raise("KeyError", "dropna")
          /\ pc' = "failed"
          /\ UNCHANGED <<pivoted, csvFile>>
     ELSE /\ pivoted' = dropna(pivoted, corr_indicators)
          /\ csvFile' = csvFile \o << pivoted' >>
          /\ pc' = to
          /\ UNCHANGED err
  /\ UNCHANGED <<converted, vietnam, disk, frame, stdout, detailed,
                 source, lookup, clean, data, extracted, getv, table1,
                 corr_matrix, results>>

\* Lines 96-98 / 66-69: drop the all-missing rows, export Pivoted_Data.csv.
DropNaStage(from, to) ==
  /\ pc = from
  /\ IF DropNaRaises(pivoted, corr_indicators)
     THEN /\ err' = Raise("KeyError", "dropna")
          /\ pc' = "failed"
          /\ UNCHANGED <<pivoted, csvFile>>
     ELSE /\ pivoted' = dropna(pivoted, corr_indicators)
          /\ csvFile' = << pivoted' >>
          /\ pc' = to
          /\ UNCHANGED err
  /\ UNCHANGED <<converted, vietnam, disk, frame, stdout, detailed,
                 source, lookup, clean, data, extracted, getv, table1,
                 corr_matrix, results>>

AD_Pivot == PivotStage("ad_table1", "ad_pivoted")
AD_DropNa == DropNaStage("ad_pivoted", "ad_dropped")

\* A start of the script that loads the raw data whether or not
\* Pivoted_Data.csv exists.
CS_Load_always ==
  /\ pc = "idle"
  /\ data' = [i \in 1..Len(clean) |->
                [read_csv(clean)[i] EXCEPT !.value = to_numeric(clean[i].value)]]
  /\ pc' = "cs_loaded"
  /\ UNCHANGED <<converted, vietnam, disk, frame, stdout, detailed,
                 source, lookup, clean, extracted, getv, table1, pivoted,
                 csvFile, corr_matrix, results, err>>

\* correlation_significance.py lines 38-49: no Pivoted_Data.csv, load raw data.
CS_Load ==
  /\ pc = "idle"
  /\ csvFile = <<>>
  /\ data' = [i \in 1..Len(clean) |->
                [read_csv(clean)[i] EXCEPT !.value = to_numeric(clean[i].value)]]
  /\ pc' = "cs_loaded"
  /\ UNCHANGED <<converted, vietnam, disk, frame, stdout, detailed,
                 source, lookup, clean, extracted, getv, table1, pivoted,
                 csvFile, corr_matrix, results, err>>

CS_Pivot == PivotStage("cs_loaded", "cs_pivoted")
CS_DropNa == DropNaStage("cs_pivoted", "cs_dropped")

\* An extractor that filters the loaded table in place and returns it.
ExtractMetricsInPlace(indicators, cut, subcut) ==
  /\ pc = "ad_loaded"
  /\ data' = Where(data, LAMBDA i : /\ data[i].cut = cut /\ data[i].subcut = subcut
                                    /\ data[i].indicator \in Range(indicators))
  /\ extracted' = [indicators |-> indicators, cut |-> cut, subcut |-> subcut,
                   rows |-> [k \in 1..Len(data') |-> Project(data'[k])]]
  /\ pc' = "extracted"
  /\ UNCHANGED <<converted, vietnam, disk, frame, stdout, detailed,
                 source, lookup, clean, getv, table1, pivoted,
                 csvFile, corr_matrix, results, err>>

\* extract_metrics applied to the loaded table for one choice of arguments.
ExtractMetrics(indicators, cut, subcut) ==
  /\ pc = "ad_loaded"
  /\ extracted' = [indicators |-> indicators, cut |-> cut, subcut |-> subcut,
                   rows |-> extract_metrics(data, indicators, cut, subcut)]
  /\ pc' = "extracted"
  /\ UNCHANGED <<converted, vietnam, disk, frame, stdout, detailed,
                 source, lookup, clean, data, getv, table1, pivoted,
                 csvFile, corr_matrix, results, err>>

\* analysis.py: get_value on the table read from the file (no coercion).
AN_GetValue(cut, subcut, indicator) ==
  /\ pc = "idle"
  /\ getv' = [cut |-> cut, subcut |-> subcut, indicator |-> indicator,
              value |-> get_value(clean, cut, subcut, indicator)]
  /\ pc' = "an_value"
  /\ UNCHANGED <<converted, vietnam, disk, frame, stdout, detailed,
                 source, lookup, clean, data, extracted, table1, pivoted,
                 csvFile, corr_matrix, results, err>>

\* analyze_data.py lines 103-106: the rounded, zero-filled matrix of Table 2.
AD_Corr ==
  /\ pc = "ad_dropped"
  /\ corr_matrix' = DisplayMatrix(pivoted)
  /\ pc' = "ad_done"
  /\ UNCHANGED <<converted, vietnam, disk, frame, stdout, detailed,
                 source, lookup, clean, data, extracted, getv, table1, pivoted,
                 csvFile, results, err>>

\* The end of analyze_data.py (or its abort): the process exits and only the
\* files stay.
AD_Exit ==
  /\ pc \in {"ad_done", "extracted", "failed"}
  /\ data' = <<>> /\ table1' = <<>> /\ pivoted' = EmptyWide /\ corr_matrix' = <<>>
  /\ extracted' = [indicators |-> <<>>, cut |-> "", subcut |-> "", rows |-> <<>>]
  /\ err' = NoErr
  /\ pc' = "idle"
  /\ UNCHANGED <<converted, vietnam, disk, frame, stdout, detailed, source, lookup, clean, getv,
                 csvFile, results>>

\* old/short_ana_2.py lines 6-12: the load of analyze_data.py.
SA_Load ==
  /\ pc = "idle"
  /\ data' = LoadData(clean)
  /\ pc' = "sa_loaded"
  /\ UNCHANGED <<converted, vietnam, disk, frame, stdout, detailed,
                 source, lookup, clean, extracted, getv, table1, pivoted,
                 csvFile, corr_matrix, results, err>>

\* old/short_ana_2.py lines 29-52: the Table 1 loop.
SA_Table1 ==
  /\ pc = "sa_loaded"
  /\ IF Table1Raises(data)
     THEN /\ err' = Raise("KeyError", "table1")
          /\ pc' = "failed"
          /\ UNCHANGED table1
     ELSE /\ table1' = Table1_old(data)
          /\ pc' = "sa_table1"
          /\ UNCHANGED err
  /\ UNCHANGED <<converted, vietnam, disk, frame, stdout, detailed,
                 source, lookup, clean, data, extracted, getv, pivoted,
                 csvFile, corr_matrix, results>>

\* old/short_ana_2.py lines 56-62: the pivot of the filtered rows as they
\* are; DataFrame.pivot raises ValueError on a repeated (index, column) key.
SA_Pivot ==
  /\ pc = "sa_table1"
  /\ LET filtered == FilterCuts(data)
     IN IF HasDuplicates(filtered)
        THEN /\ err' = Raise("ValueError", "pivot")
             /\ pc' = "failed"
             /\ UNCHANGED pivoted
        ELSE /\ pivoted' = Pivot(filtered)
             /\ pc' = "sa_pivoted"
             /\ UNCHANGED err
  /\ UNCHANGED <<converted, vietnam, disk, frame, stdout, detailed,
                 source, lookup, clean, data, extracted, getv, table1,
                 csvFile, corr_matrix, results>>

\* old/short_ana_2.py line 65: drop the all-missing rows (nothing is exported).
SA_DropNa ==
  /\ pc = "sa_pivoted"
  /\ IF DropNaRaises(pivoted, corr_indicators)
     THEN /\ err' = Raise("KeyError", "dropna")
          /\ pc' = "failed"
          /\ UNCHANGED pivoted
     ELSE /\ pivoted' = dropna(pivoted, corr_indicators)
          /\ pc' = "sa_dropped"
          /\ UNCHANGED err
  /\ UNCHANGED <<converted, vietnam, disk, frame, stdout, detailed,
                 source, lookup, clean, data, extracted, getv, table1,
                 csvFile, corr_matrix, results>>

\* old/short_ana_2.py lines 68-71: the rounded, zero-filled matrix.
SA_Corr ==
  /\ pc = "sa_dropped"
  /\ corr_matrix' = DisplayMatrix(pivoted)
  /\ pc' = "sa_done"
  /\ UNCHANGED <<converted, vietnam, disk, frame, stdout, detailed,
                 source, lookup, clean, data, extracted, getv, table1, pivoted,
                 csvFile, results, err>>

\* correlation_significance.py lines 38-40: Pivoted_Data.csv exists.
CS_ReadCsv ==
  /\ pc \in {"idle", "ad_done"}
  /\ csvFile # <<>>
  /\ pivoted' = csvFile[1]
  /\ pc' = "cs_read"
  /\ UNCHANGED <<converted, vietnam, disk, frame, stdout, detailed,
                 source, lookup, clean, data, extracted, getv, table1,
                 csvFile, corr_matrix, results, err>>

\* correlation_significance.py line 91, for a list of indicator codes.
CorrStage(inds) ==
  /\ pc \in {"cs_read", "cs_dropped"}
  /\ corr_matrix' = CorrMatrixOf(inds, pivoted)
  /\ pc' = "cs_corr"
  /\ UNCHANGED <<converted, vietnam, disk, frame, stdout, detailed,
                 source, lookup, clean, data, extracted, getv, table1, pivoted,
                 csvFile, results, err>>

CS_Corr == CorrStage(corr_indicators)

\* correlation_significance.py lines 198-264: n, df and the key relationships.
KeyStage(rels) ==
  /\ pc = "cs_corr"
  /\ results' = KeyResultsOf(rels, corr_matrix, len(pivoted))
  /\ pc' = "cs_done"
  /\ UNCHANGED <<converted, vietnam, disk, frame, stdout, detailed,
                 source, lookup, clean, data, extracted, getv, table1, pivoted,
                 csvFile, corr_matrix, err>>

CS_KeyRelationships == KeyStage(key_relationships)

\* correlation_significance.py lines 266-272: the key table sorted by |t|.
CS_Sort ==
  /\ pc = "cs_done"
  /\ results' \in sort_values(results)
  /\ pc' = "cs_sorted"
  /\ UNCHANGED <<converted, vietnam, disk, frame, stdout, detailed, source, lookup, clean, data,
                 extracted, getv, table1, pivoted, csvFile, corr_matrix, err>>

\* Lines 401-425: the all-pairs table and its sort.
DetailedStage(inds) ==
  /\ pc = "cs_sorted"
  /\ detailed' \in sort_values(DetailedResultsOf(inds, corr_matrix, len(pivoted)))
  /\ pc' = "cs_detailed"
  /\ UNCHANGED <<converted, vietnam, disk, frame, stdout, source, lookup, clean, data, extracted,
                 getv, table1, pivoted, csvFile, corr_matrix, results, err>>

CS_Detailed == DetailedStage(corr_indicators)

\* The loop body of lines 239-264 applied to one rounded coefficient r and
\* one number of segments n.
Stats(r, n) ==
  /\ pc = "stat"
  /\ results' = <<StatRow(r, n, key_relationships[1], 0)>>
  /\ pc' = "stats"
  /\ UNCHANGED <<converted, vietnam, disk, frame, stdout, detailed, source, lookup, clean, data,
                 extracted, getv, table1, pivoted, csvFile, corr_matrix, err>>

\* The loop body of lines 407-422 applied to one rounded coefficient r and
\* one number of segments n.
Detail(r, n) ==
  /\ pc = "stat"
  /\ detailed' = <<DetailRow(r, n, UpperPairs[1], 0)>>
  /\ pc' = "detail"
  /\ UNCHANGED <<converted, vietnam, disk, frame, stdout, results, source, lookup, clean, data,
                 extracted, getv, table1, pivoted, csvFile, corr_matrix, err>>

\* get_significance and get_strength_description applied to one r and one p.
Describe(r, p) ==
  /\ pc = "stat"
  /\ results' = <<[r |-> r, p |-> p, sig |-> get_significance(p),
                   interp |-> get_strength_description(r, p)]>>
  /\ pc' = "described"
  /\ UNCHANGED <<converted, vietnam, disk, frame, stdout, detailed, source, lookup, clean, data,
                 extracted, getv, table1, pivoted, csvFile, corr_matrix, err>>

\* The sort of lines 270 and 425 applied to one table of rows.
SortValues ==
  /\ pc = "unsorted"
  /\ results' \in sort_values(results)
  /\ pc' = "sorted"
  /\ UNCHANGED <<converted, vietnam, disk, frame, stdout, detailed, source, lookup, clean, data,
                 extracted, getv, table1, pivoted, csvFile, corr_matrix, err>>

\* The end of correlation_significance.py (or its abort): the process exits
\* and only the files stay.
CS_Exit ==
  /\ pc \in {"cs_detailed", "failed"}
  /\ data' = <<>> /\ pivoted' = EmptyWide /\ corr_matrix' = <<>>
  /\ results' = <<>> /\ detailed' = <<>> /\ err' = NoErr
  /\ pc' = "idle"
  /\ UNCHANGED <<converted, vietnam, disk, frame, stdout, source, lookup, clean, extracted, getv,
                 table1, csvFile>>

\* The survey extract that prepare_data.py reads is replaced by a newer one;
\* prepare_data.py is then run again.
SourceReplaced ==
  /\ pc = "idle"
  /\ source' \in Tables(RerunRows, MaxSrc)
  /\ pc' = "prep"
  /\ UNCHANGED <<converted, vietnam, disk, frame, stdout, detailed, lookup, clean, data, extracted,
                 getv, table1, pivoted, csvFile, corr_matrix, results, err>>

(* ------------------------------------------------------ pre.py, main() *)
\* load_data of pre.py (first.py has the same function): read_csv inside
\* try / except Exception; the table as read, or None.
load_data(d, file) ==
  IF d.readable
  THEN [loaded |-> TRUE, cols |-> d.cols,
        rows |-> [i \in 1..Len(file) |-> [c \in d.cols |-> file[i][c]]]]
  ELSE NoFrame

\* main(), lines 378-381: load_data prints its outcome; on None main returns.
PRE_Load ==
  /\ pc = "idle"
  /\ frame' = load_data(disk, clean)
  /\ IF frame'.loaded
     THEN /\ stdout' = Append(stdout, "Data loaded successfully")
          /\ pc' = "pre_loaded"
     ELSE /\ stdout' = Append(stdout, "Error loading data")
          /\ pc' = "pre_returned"
  /\ UNCHANGED <<converted, vietnam, disk, detailed, source, lookup, clean, data, extracted, getv,
                 table1, pivoted, csvFile, corr_matrix, results, err>>

\* explore_data prints the columns, types and head of whatever was loaded.
PRE_Explore ==
  /\ pc = "pre_loaded"
  /\ stdout' = Append(stdout, "DATA EXPLORATION")
  /\ pc' = "pre_explored"
  /\ UNCHANGED <<converted, vietnam, disk, frame, detailed, source, lookup, clean, data, extracted,
                 getv, table1, pivoted, csvFile, corr_matrix, results, err>>

\* analyze_indicators ... extract_useful_indicators (lines 58-242) index the
\* columns indicator, EnglishName and value.
PRE_Analyze ==
  /\ pc = "pre_explored"
  /\ IF {"indicator", "EnglishName", "value"} \subseteq frame.cols
     THEN /\ stdout' = Append(stdout, "INDICATOR ANALYSIS")
          /\ pc' = "pre_analyzed"
          /\ UNCHANGED err
     ELSE /\ err' = Raise("KeyError", "analyze")
          /\ pc' = "failed"
          /\ UNCHANGED stdout
  /\ UNCHANGED <<converted, vietnam, disk, frame, detailed, source, lookup, clean, data, extracted,
                 getv, table1, pivoted, csvFile, corr_matrix, results>>

\* create_summary_tables and create_visualizations (lines 244-329) index Topic.
PRE_Report ==
  /\ pc = "pre_analyzed"
  /\ IF "Topic" \in frame.cols
     THEN /\ stdout' = Append(stdout, "Visualization saved")
          /\ pc' = "pre_reported"
          /\ UNCHANGED err
     ELSE /\ err' = Raise("KeyError", "report")
          /\ pc' = "failed"
          /\ UNCHANGED stdout
  /\ UNCHANGED <<converted, vietnam, disk, frame, detailed, source, lookup, clean, data, extracted,
                 getv, table1, pivoted, csvFile, corr_matrix, results>>

\* export_results, lines 331-368: the workbook is written inside
\* try / except Exception; a failure is printed and the function returns.
PRE_Export ==
  /\ pc = "pre_reported"
  /\ stdout' = Append(stdout, IF disk.writable THEN "Results exported"
                                               ELSE "Error exporting")
  /\ pc' = "pre_exported"
  /\ UNCHANGED <<converted, vietnam, disk, frame, detailed, source, lookup, clean, data, extracted,
                 getv, table1, pivoted, csvFile, corr_matrix, results, err>>

\* main(), lines 409-434: the final summary.
PRE_Summary ==
  /\ pc = "pre_exported"
  /\ stdout' = stdout \o <<"ANALYSIS COMPLETE", "Results exported to Excel">>
  /\ pc' = "pre_done"
  /\ UNCHANGED <<converted, vietnam, disk, frame, detailed, source, lookup, clean, data, extracted,
                 getv, table1, pivoted, csvFile, corr_matrix, results, err>>

(* ========================================================= initial states *)
ValueTexts == {".", "1", "2"}

FileRow(seg, code, v) ==
  [cut |-> seg[1], subcut |-> seg[2], indicator |-> code, Topic |-> "T",
   EnglishName |-> "E", value |-> v, se |-> ".", N |-> "."]

FileSegs == {<<"All", "All">>, <<"Size", "Small (5-19)">>,
             <<"Size", "Medium (20-99)">>, <<"Size", "Large (100+)">>}
FileCodes == {"t5", "perf3"}
\* Rows of the two requested codes in every segment, and one row of a code
\* that the correlation does not request.
FileRows ==
  {FileRow(s, c, v) : s \in FileSegs, c \in FileCodes, v \in ValueTexts}
    \cup {FileRow(<<"All", "All">>, "bready_comp1", "1")}

ExtractSegs == {<<"All", "All">>, <<"Size", "All">>, <<"Size", "Large (100+)">>}
ExtractRows == {FileRow(s, c, v) : s \in ExtractSegs, c \in {"t5", "perf3"},
                                   v \in ValueTexts}

SourceRows ==
  {[cut |-> "All", subcut |-> "All", indicator |-> c, value |-> v, se |-> ".", N |-> "."] :
     c \in {"_sample", "fieldworkdate", "_sam ple", "t5"}, v \in {"1", "2"}}
LookupRows ==
  {[FieldName |-> f, Topic |-> t, EnglishName |-> "Website"] :
     f \in {"t5", "t 5"}, t \in {"A", "B"}}

\* The wide tables analyze_data.py can export: segments ascending, every
\* requested column present, no row with every indicator missing.
WideSegs == <<<<"All", "All">>, <<"Exporter Type", "Non-exporter">>,
              <<"Size", "Large (100+)">>, <<"Size", "Medium (20-99)">>,
              <<"Size", "Small (5-19)">>>>
WideVals == {f \in [Range(corr_indicators) -> {NaN, 1, 2}] :
               \E c \in Range(corr_indicators) : f[c] # NaN}
WideTables ==
  {[cols |-> PivotColumns([n \in 1..Len(corr_indicators) |-> [indicator |-> corr_indicators[n]]]),
    rows |-> [k \in 1..Len(v) |->
                [cut |-> WideSegs[k][1], subcut |-> WideSegs[k][2], vals |-> v[k]]]] :
     v \in Tables(WideVals, MaxSegs)}

Blank0 ==
  /\ source = <<>> /\ lookup = <<>> /\ data = <<>>
  /\ extracted = [indicators |-> <<>>, cut |-> "", subcut |-> "", rows |-> <<>>]
  /\ getv = [cut |-> "", subcut |-> "", indicator |-> "", value |-> "None"]
  /\ table1 = <<>> /\ corr_matrix = <<>> /\ results = <<>>
  /\ err = NoErr
  /\ frame = NoFrame /\ stdout = <<>> /\ detailed = <<>>
  /\ converted = NoCsv /\ vietnam = NoCsv

\* A clean file on disk, no script run yet, no Pivoted_Data.csv.
Init ==
  /\ clean \in Tables(FileRows, MaxRows)
  /\ pivoted = EmptyWide /\ csvFile = <<>>
  /\ pc = "idle"
  /\ disk = DiskOK
  /\ Blank0

\* The calls of analysis.py: the overall segment and a size group, for two of
\* its indicator codes.
AN_Calls ==
  \E seg \in {<<"All", "All">>, <<"Size", "Large (100+)">>} :
     \E ind \in {"perf3", "bready_comp1"} : AN_GetValue(seg[1], seg[2], ind)

Next ==
  \/ AD_Load \/ AD_Table1 \/ AD_Pivot \/ AD_DropNa
  \/ CS_Load \/ CS_Pivot \/ CS_DropNa
  \/ AN_Calls

Spec == Init /\ [][Next]_vars

\* The extractor and get_value applied to a loaded table, for every argument.
InitExtract ==
  /\ clean \in Tables(ExtractRows, MaxRows)
  /\ pivoted = EmptyWide /\ csvFile = <<>>
  /\ pc = "idle"
  /\ disk = DiskOK
  /\ Blank0

NextExtract ==
  \/ AD_Load
  \/ \E inds \in {inn_indicators, corr_indicators} :
       \E cut \in {"All", "Size"} : \E subcut \in {"All", "Large (100+)"} :
          ExtractMetrics(inds, cut, subcut)
  \/ \E cut \in {"All", "Size"} : \E subcut \in {"All", "Large (100+)"} :
       \E ind \in {"t5", "perf3"} : AN_GetValue(cut, subcut, ind)

SpecExtract == InitExtract /\ [][NextExtract]_vars

\* prepare_data.py on a source file and a lookup table, then the load.
InitPrep ==
  /\ source \in Tables(SourceRows, MaxSrc)
  /\ lookup \in Tables(LookupRows, MaxLookup)
  /\ clean = <<>> /\ data = <<>>
  /\ extracted = [indicators |-> <<>>, cut |-> "", subcut |-> "", rows |-> <<>>]
  /\ getv = [cut |-> "", subcut |-> "", indicator |-> "", value |-> "None"]
  /\ table1 = <<>> /\ corr_matrix = <<>> /\ results = <<>>
  /\ err = NoErr
  /\ frame = NoFrame /\ stdout = <<>> /\ detailed = <<>>
  /\ converted = NoCsv /\ vietnam = NoCsv
  /\ disk = DiskOK
  /\ pivoted = EmptyWide /\ csvFile = <<>>
  /\ pc = "prep"

NextPrep == MakeCleanFile \/ AD_Load

SpecPrep == InitPrep /\ [][NextPrep]_vars

\* The compute stage, from a wide table that analyze_data.py has exported.
InitCorr ==
  /\ \E w \in WideTables :
       /\ csvFile = <<w>>
       /\ \/ pc = "ad_dropped" /\ pivoted = w
          \/ pc = "idle" /\ pivoted = EmptyWide
  /\ clean = <<>>
  /\ disk = DiskOK
  /\ Blank0

NextCorr ==
  \/ AD_Corr \/ CS_ReadCsv \/ CS_Corr \/ CS_KeyRelationships
  \/ CS_Sort \/ CS_Detailed

SpecCorr == InitCorr /\ [][NextCorr]_vars

\* A run of pre.py or of analyze_data.py's load on a file that may be
\* unreadable or lack columns, in a directory that may not be writable.
MaxRun == 2
RunRows == {FileRow(<<"All", "All">>, c, "1") : c \in {"t5", "perf3"}}
RunDisks ==
  {[readable |-> r, cols |-> FileColumns \ missing, writable |-> w] :
     r \in BOOLEAN, w \in BOOLEAN,
     missing \in {{}, {"Topic"}, {"value"}, {"EnglishName"}}}

InitRun ==
  /\ clean \in Tables(RunRows, MaxRun) \ {<<>>}
  /\ disk \in RunDisks
  /\ pivoted = EmptyWide /\ csvFile = <<>>
  /\ pc = "idle"
  /\ Blank0

NextRun ==
  \/ PRE_Load \/ PRE_Explore \/ PRE_Analyze \/ PRE_Report \/ PRE_Export
  \/ PRE_Summary \/ AD_Load

SpecRun == InitRun /\ [][NextRun]_vars

\* The functions of the significance table on their own: every rounded
\* coefficient around the thresholds of the strength ladder, every number of
\* segments up to MaxN, every p-value around the thresholds of the tiers.
MaxN == 4
RIn == {NaN, -100, -99, -71, -70, -51, -50, -31, -30, -1, 0,
        1, 30, 31, 50, 51, 70, 71, 99, 100}
PIn == {NaN, 0, 1, 2, 3, 19, 20, 21, 99, 100, 101, 2000}

InitStat ==
  /\ pc = "stat"
  /\ clean = <<>> /\ pivoted = EmptyWide /\ csvFile = <<>>
  /\ disk = DiskOK
  /\ Blank0

NextStat ==
  \/ \E r \in RIn : \E n \in 0..MaxN : Stats(r, n)
  \/ \E r \in RIn : \E n \in 0..MaxN : Detail(r, n)
  \/ \E r \in RIn : \E p \in PIn : Describe(r, p)

SpecStat == InitStat /\ [][NextStat]_vars

\* The sort on its own: tables of up to MaxPairs rows of the loop for MaxN
\* segments, over coefficients that give equal, infinite and undefined |t|.
MaxPairs == 3
SortR == {NaN, -100, -50, 0, 50, 100}
SortTables ==
  UNION {{[k \in 1..m |-> StatRow(f[k], MaxN, key_relationships[1], k - 1)] :
            f \in [1..m -> SortR]} : m \in 1..MaxPairs}

InitSort ==
  /\ pc = "unsorted"
  /\ results \in SortTables
  /\ clean = <<>> /\ pivoted = EmptyWide /\ csvFile = <<>>
  /\ disk = DiskOK
  /\ source = <<>> /\ lookup = <<>> /\ data = <<>>
  /\ extracted = [indicators |-> <<>>, cut |-> "", subcut |-> "", rows |-> <<>>]
  /\ getv = [cut |-> "", subcut |-> "", indicator |-> "", value |-> "None"]
  /\ table1 = <<>> /\ corr_matrix = <<>>
  /\ err = NoErr
  /\ frame = NoFrame /\ stdout = <<>> /\ detailed = <<>>
  /\ converted = NoCsv /\ vietnam = NoCsv

NextSort == SortValues

SpecSort == InitSort /\ [][NextSort]_vars

\* prepare_data.py and correlation_significance.py run again and again in
\* one directory, the survey extract changing between the runs.
InitRerun ==
  /\ source \in Tables(RerunRows, MaxSrc)
  /\ lookup = <<[FieldName |-> "t5", Topic |-> "A", EnglishName |-> "Website"]>>
  /\ clean = <<>> /\ data = <<>>
  /\ extracted = [indicators |-> <<>>, cut |-> "", subcut |-> "", rows |-> <<>>]
  /\ getv = [cut |-> "", subcut |-> "", indicator |-> "", value |-> "None"]
  /\ table1 = <<>> /\ corr_matrix = <<>> /\ results = <<>>
  /\ err = NoErr
  /\ frame = NoFrame /\ stdout = <<>> /\ detailed = <<>>
  /\ converted = NoCsv /\ vietnam = NoCsv
  /\ disk = DiskOK
  /\ pivoted = EmptyWide /\ csvFile = <<>>
  /\ pc = "prep"

NextRerun ==
  \/ MakeCleanFile \/ SourceReplaced
  \/ CS_Load \/ CS_Pivot \/ CS_DropNa \/ CS_ReadCsv
  \/ CS_Corr \/ CS_KeyRelationships \/ CS_Sort \/ CS_Detailed \/ CS_Exit

SpecRerun == InitRerun /\ [][NextRerun]_vars

\* The load on its own: files whose value, se and N hold the period, other
\* text that is no number, and numerals.
LoadRows ==
  {[FileRow(<<"All", "All">>, "t5", v) EXCEPT !.se = e, !.N = n] :
     v \in {".", "x", "2"}, e \in {".", "1"}, n \in {"x", "3"}}

InitLoad ==
  /\ clean \in Tables(LoadRows, MaxRows)
  /\ pivoted = EmptyWide /\ csvFile = <<>>
  /\ pc = "idle"
  /\ disk = DiskOK
  /\ Blank0

NextLoad == AD_Load

SpecLoad == InitLoad /\ [][NextLoad]_vars

\* analyze_data.py run again and again on one clean file, and then the
\* significance script: the file has website adoption for each size group,
\* with or without a standard error, followed by up to MaxTail further rows,
\* one of them with an empty subcut field.
MaxTail == 2
PipeBase ==
  {[k \in 1..3 |-> [FileRow(<<"Size", SizeSubcuts[k]>>, "t5", v[k]) EXCEPT !.se = e[k]]] :
     v \in {<<"1", "2", "1">>}, e \in [1..3 -> {".", "2"}]}
PipeTail ==
  {FileRow(<<"Size", SizeSubcuts[k]>>, "perf3", v) : k \in 1..3, v \in {"1", "2"}}
    \cup {FileRow(<<"All", "All">>, "t5", "2"), FileRow(<<"All", "">>, "perf3", "1")}

InitPipe ==
  /\ \E b \in PipeBase : \E t \in Tables(PipeTail, MaxTail) : clean = b \o t
  /\ pivoted = EmptyWide /\ csvFile = <<>>
  /\ pc = "idle"
  /\ disk = DiskOK
  /\ Blank0

NextPipe ==
  \/ AD_Load
  \/ \E k \in 1..3 : ExtractMetrics(inn_indicators, "Size", SizeSubcuts[k])
  \/ AD_Table1 \/ AD_Pivot \/ AD_DropNa \/ AD_Corr \/ AD_Exit
  \/ CS_ReadCsv \/ CS_Corr \/ CS_KeyRelationships \/ CS_Sort \/ CS_Detailed

SpecPipe == InitPipe /\ [][NextPipe]_vars

\* The significance script on exported wide tables of three segments whose
\* two indicators are nearly or exactly collinear (website adoption 1, 2, 4
\* or 1, 2, 3 against productivity growth over 1, 2, 5).
NearTables ==
  {[cols |-> PivotColumns([n \in 1..Len(corr_indicators) |-> [indicator |-> corr_indicators[n]]]),
    rows |-> [k \in 1..3 |->
                [cut |-> WideSegs[k][1], subcut |-> WideSegs[k][2],
                 vals |-> [c \in Range(corr_indicators) |->
                             IF c = "t5" THEN x[k] ELSE y[k]]]]] :
     x \in {<<1, 2, 4>>, <<1, 2, 3>>}, y \in [1..3 -> {1, 2, 5}]}

InitNear ==
  /\ csvFile \in {<<w>> : w \in NearTables}
  /\ pivoted = EmptyWide
  /\ pc = "idle"
  /\ clean = <<>>
  /\ disk = DiskOK
  /\ Blank0

NextNear == CS_ReadCsv \/ CS_Corr \/ CS_KeyRelationships \/ CS_Sort \/ CS_Detailed

SpecNear == InitNear /\ [][NextNear]_vars

\* old/short_ana_2.py on a clean file with website adoption for each size
\* group, followed by up to MaxTail rows of the size groups, of the overall
\* segment and of a sector.
OldTail ==
  {FileRow(s, c, v) : s \in {<<"Size", "Small (5-19)">>, <<"All", "All">>},
                      c \in {"t5", "perf3"}, v \in {"1", "2"}}
    \cup {FileRow(<<"Sector", "Manufacturing">>, "perf3", "1")}

InitOld ==
  /\ \E b \in {x \in PipeBase : \A k \in 1..3 : x[k].se = "."} :
       \E t \in Tables(OldTail, MaxTail) : clean = b \o t
  /\ pivoted = EmptyWide /\ csvFile = <<>>
  /\ pc = "idle"
  /\ disk = DiskOK
  /\ Blank0

NextOld == SA_Load \/ SA_Table1 \/ SA_Pivot \/ SA_DropNa \/ SA_Corr

SpecOld == InitOld /\ [][NextOld]_vars

\* The filter on converted files of up to MaxRows rows: country texts
\* "Viet Nam2023", "VIET NAM2023" and "Thailand2023", subcut texts "All" and
\* "H\`a" (with a grave accent), a row one field short and rows one field long.
ConvertedRows ==
  LET VietNam == <<86, 105, 101, 116, 32, 78, 97, 109, 50, 48, 50, 51>>
      VIETNAM == <<86, 73, 69, 84, 32, 78, 65, 77, 50, 48, 50, 51>>
      Thailand == <<84, 104, 97, 105, 108, 97, 110, 100, 50, 48, 50, 51>>
      AllText == <<65, 108, 108>>
      HaText == <<72, 224>>
  IN {<<c, f>> : c \in {VietNam, VIETNAM, Thailand}, f \in {AllText, HaText}}
       \cup {<<VietNam>>, <<VietNam, AllText, AllText>>, <<Thailand, AllText, AllText>>}

InitViet ==
  /\ \E h \in {<<"country", "subcut">>, <<"subcut", "country">>} :
       \E r \in Tables(ConvertedRows, MaxRows) : converted = [header |-> h, rows |-> r]
  /\ vietnam = NoCsv
  /\ pc = "filter"
  /\ clean = <<>> /\ pivoted = EmptyWide /\ csvFile = <<>>
  /\ disk = DiskOK
  /\ source = <<>> /\ lookup = <<>> /\ data = <<>>
  /\ extracted = [indicators |-> <<>>, cut |-> "", subcut |-> "", rows |-> <<>>]
  /\ getv = [cut |-> "", subcut |-> "", indicator |-> "", value |-> "None"]
  /\ table1 = <<>> /\ corr_matrix = <<>> /\ results = <<>>
  /\ err = NoErr
  /\ frame = NoFrame /\ stdout = <<>> /\ detailed = <<>>

NextViet == FilterCountry

SpecViet == InitViet /\ [][NextViet]_vars

\* The two loops of the significance script over three codes of
\* corr_indicators (in the order of the list) and the three key relationships
\* among them (in the order and orientation of the list), on wide tables of
\* three segments.
PairIndicators == <<"t5", "perf3", "bready_fin28">>
PairRelationships == << <<"bready_fin28", "perf3">>, <<"t5", "perf3">>,
                        <<"t5", "bready_fin28">> >>
PairTables ==
  {[cols |-> <<"bready_fin28", "perf3", "t5">>,
    rows |-> [k \in 1..3 |->
                [cut |-> WideSegs[k][1], subcut |-> WideSegs[k][2],
                 vals |-> [c \in Range(PairIndicators) |->
                             IF c = "t5" THEN x[k] ELSE IF c = "perf3" THEN y[k] ELSE z[k]]]]] :
     x \in {<<1, 2, 4>>}, y \in [1..3 -> {1, 2, 5}], z \in [1..3 -> {1, 2, 5}]}

InitPairs ==
  /\ pivoted \in PairTables
  /\ csvFile = <<pivoted>>
  /\ pc = "cs_read"
  /\ clean = <<>>
  /\ disk = DiskOK
  /\ Blank0

NextPairs ==
  \/ CorrStage(PairIndicators) \/ KeyStage(PairRelationships) \/ CS_Sort
  \/ DetailedStage(PairIndicators)

SpecPairs == InitPairs /\ [][NextPairs]_vars

(* ================================================================= claims *)
PivotDone == pc \in {"ad_pivoted", "cs_pivoted", "ad_dropped", "cs_dropped"}
Requested(r) == r.subcut # "" /\ r.indicator \in Range(corr_indicators)

\* The loaded rows with the key (seg, code), as indices in input order.
KeyRows(seg, code) ==
  {i \in 1..Len(data) : Requested(data[i]) /\ Key(data[i]) = <<seg[1], seg[2], code>>}
Least(I) == CHOOSE i \in I : \A j \in I : i <= j
FirstSeenValue(seg, code) ==
  IF KeyRows(seg, code) = {} THEN NaN ELSE data[Least(KeyRows(seg, code))].value

\* C1: when several filtered rows share a (cut, subcut, indicator) key the
\* pivot raises nothing, and every cell of the wide table holds the value of
\* the first row of its key in input order, also when that value is missing
\* and a later one is not.
C1_PivotKeepsFirst ==
  /\ err.at # "pivot"
  /\ PivotDone =>
       \A k \in 1..Len(pivoted.rows) : \A c \in Range(pivoted.cols) :
          pivoted.rows[k].vals[c] =
            FirstSeenValue(<<pivoted.rows[k].cut, pivoted.rows[k].subcut>>, c)
  /\ pc \in {"ad_pivoted", "cs_pivoted"} =>
       \A i \in 1..Len(data) : Requested(data[i]) =>
          \E k \in 1..Len(pivoted.rows) :
             /\ Seg(pivoted.rows[k]) = Seg(data[i])
             /\ data[i].indicator \in Range(pivoted.cols)

\* A pivoted table whose key has a missing first value and a later number.
C1_Witness ==
  /\ pc = "cs_pivoted"
  /\ \E i, j \in 1..Len(data) :
       /\ i < j /\ Requested(data[i]) /\ Key(data[i]) = Key(data[j])
       /\ data[i].value = NaN /\ data[j].value # NaN
       /\ \E k \in 1..Len(pivoted.rows) :
            /\ Seg(pivoted.rows[k]) = Seg(data[i])
            /\ pivoted.rows[k].vals[data[i].indicator] = NaN

\* C2: a requested indicator with no row in a size segment of a non-empty
\* table yields a missing marker in Table 1 and from get_value: never zero,
\* never an exception.
Table1Ran == pc \in {"ad_table1", "ad_pivoted", "ad_dropped"} \/ err.at = "table1"
LacksSize(ind, k) ==
  ~\E i \in 1..Len(data) :
     /\ data[i].cut = "Size" /\ data[i].subcut = SizeSubcuts[k]
     /\ data[i].indicator = ind
Table1Value(n, k) ==
  IF k = 1 THEN table1[n].s_val ELSE IF k = 2 THEN table1[n].m_val ELSE table1[n].l_val
C2_MissingIsMarker ==
  /\ (Table1Ran /\ Len(data) > 0) =>
       \A n \in 1..Len(inn_indicators) : \A k \in 1..Len(SizeSubcuts) :
          LacksSize(inn_indicators[n], k) =>
             /\ err.exc = "none"
             /\ Len(table1) = Len(inn_indicators)
             /\ Table1Value(n, k) = Blank
  /\ pc = "an_value" =>
       ((~\E i \in 1..Len(clean) :
            /\ clean[i].cut = getv.cut /\ clean[i].subcut = getv.subcut
            /\ clean[i].indicator = getv.indicator)
        => getv.value = "None")

\* C5 as claimed: the rows of the pivot output are in the order their
\* segments are first met in the filtered input, and the indicator columns in
\* the order of indicator_codes.
FirstRowOf(seg) ==
  Least({i \in 1..Len(data) : Requested(data[i]) /\ Seg(data[i]) = seg})
ListPos(code) == CHOOSE n \in 1..Len(corr_indicators) : corr_indicators[n] = code
C5_FirstSeenOrder ==
  PivotDone =>
    /\ \A k, l \in 1..Len(pivoted.rows) :
         k < l => FirstRowOf(Seg(pivoted.rows[k])) < FirstRowOf(Seg(pivoted.rows[l]))
    /\ \A a, b \in 1..Len(pivoted.cols) :
         a < b => ListPos(pivoted.cols[a]) < ListPos(pivoted.cols[b])

\* C5 as amended: the rows of the pivot output ascend by (cut, subcut) and
\* the indicator columns ascend by code name, whatever the input order and
\* the order of indicator_codes.
C5_SortedOrder ==
  PivotDone =>
    /\ \A k, l \in 1..Len(pivoted.rows) :
         k < l => SegLess(Seg(pivoted.rows[k]), Seg(pivoted.rows[l]))
    /\ \A a, b \in 1..Len(pivoted.cols) :
         a < b => StrLess(pivoted.cols[a], pivoted.cols[b])

\* A pivot whose first-seen segment sorts last and whose columns are both there.
C5_Witness ==
  /\ pc = "cs_pivoted"
  /\ Len(pivoted.cols) = 2
  /\ \E k, l \in 1..Len(pivoted.rows) :
       /\ k < l
       /\ FirstRowOf(Seg(pivoted.rows[l])) < FirstRowOf(Seg(pivoted.rows[k]))

\* C6: the pivot output has one column per requested indicator code, also
\* for a code that no filtered row carries, and the all-missing drop completes.
C6_ColumnPerCode ==
  /\ PivotDone => \A n \in 1..Len(corr_indicators) :
                     corr_indicators[n] \in Range(pivoted.cols)
  /\ err.at # "dropna"

\* C8: after the all-missing drop a segment is in the pivot output exactly
\* when one of the requested indicators has a non-missing first-seen value
\* for it, once, and no output row has every requested column missing.
HasValue(seg) ==
  \E n \in 1..Len(corr_indicators) : FirstSeenValue(seg, corr_indicators[n]) # NaN
C8_MissingRowDrop ==
  pc \in {"ad_dropped", "cs_dropped"} =>
    /\ {Seg(pivoted.rows[k]) : k \in 1..Len(pivoted.rows)} =
         {Seg(data[i]) : i \in {j \in 1..Len(data) :
                                  Requested(data[j]) /\ HasValue(Seg(data[j]))}}
    /\ \A k, l \in 1..Len(pivoted.rows) :
         k # l => Seg(pivoted.rows[k]) # Seg(pivoted.rows[l])
    /\ \A k \in 1..Len(pivoted.rows) :
         \E n \in 1..Len(corr_indicators) : pivoted.rows[k].vals[corr_indicators[n]] # NaN

\* An exported table from which a segment with only missing values was dropped.
C8_Witness ==
  /\ pc = "cs_dropped"
  /\ Len(pivoted.rows) > 0
  /\ \E i \in 1..Len(data) : Requested(data[i]) /\ ~HasValue(Seg(data[i]))

\* The rows of the loaded table that match the arguments of the extraction.
Matching ==
  {i \in 1..Len(data) : /\ data[i].cut = extracted.cut
                        /\ data[i].subcut = extracted.subcut
                        /\ data[i].indicator \in Range(extracted.indicators)}
Nth(I, k) == CHOOSE i \in I : Cardinality({j \in I : j < i}) = k - 1
Returned(code) == {k \in 1..Len(extracted.rows) : extracted.rows[k].indicator = code}
SameKey(code) == {i \in Matching : data[i].indicator = code}

\* C7 as claimed: the extractor returns at most one row per indicator code,
\* the first-seen one when the source repeats a (cut, subcut, indicator) key.
C7_AtMostOnePerCode ==
  pc = "extracted" =>
    \A k, l \in 1..Len(extracted.rows) :
       k # l => extracted.rows[k].indicator # extracted.rows[l].indicator

\* C7 as amended: the extractor returns every row of the segment whose code
\* is requested, so one row per code only when the table repeats no key;
\* a repeated key comes back as often as it occurs, the first-seen row first.
C7_OnePerCodeUnlessRepeated ==
  pc = "extracted" =>
    \A code \in Range(extracted.indicators) :
       /\ Cardinality(Returned(code)) = Cardinality(SameKey(code))
       /\ SameKey(code) # {} =>
            extracted.rows[Least(Returned(code))] = Project(data[Least(SameKey(code))])

\* An extraction that returned two rows of one indicator code.
C7_Witness ==
  /\ pc = "extracted"
  /\ \E k, l \in 1..Len(extracted.rows) :
       k < l /\ extracted.rows[k].indicator = extracted.rows[l].indicator

\* C9: the extractor returns exactly the rows whose cut and subcut equal the
\* arguments and whose indicator is requested, in input order; get_value
\* answers from such a row only; 'All' matches the literal 'All' alone.
C9_ExactMatch ==
  /\ pc = "extracted" =>
       /\ Len(extracted.rows) = Cardinality(Matching)
       /\ \A k \in 1..Len(extracted.rows) :
            extracted.rows[k] = Project(data[Nth(Matching, k)])
  /\ pc = "an_value" =>
       LET hits == {i \in 1..Len(clean) : /\ clean[i].cut = getv.cut
                                          /\ clean[i].subcut = getv.subcut
                                          /\ clean[i].indicator = getv.indicator}
       IN IF hits = {} THEN getv.value = "None"
          ELSE getv.value = clean[Least(hits)].value

\* An extraction for ('All', 'All') from a table that also holds a requested
\* row of another segment.
C9_Witness ==
  /\ pc = "extracted"
  /\ extracted.cut = "All" /\ extracted.subcut = "All"
  /\ Len(extracted.rows) > 0
  /\ \E i \in 1..Len(data) :
       /\ data[i].indicator \in Range(extracted.indicators)
       /\ Seg(data[i]) # <<"All", "All">>

\* C10: no row of the cleaned table, nor of the table loaded from it, carries
\* '_sample' or 'fieldworkdate', however many such source rows there are, and
\* every source row of another code (codes taken as make_clean_file
\* normalises them, spaces removed) is in the cleaned table with its fields.
C10_ExcludedNeverLoaded ==
  /\ pc # "prep" =>
       /\ \A j \in 1..Len(clean) : clean[j].indicator \notin exclude_values
       /\ \A i \in 1..Len(source) :
            RemoveSpaces(source[i].indicator) \notin exclude_values =>
               \E j \in 1..Len(clean) :
                  /\ clean[j].indicator = RemoveSpaces(source[i].indicator)
                  /\ clean[j].cut = source[i].cut /\ clean[j].subcut = source[i].subcut
                  /\ clean[j].value = source[i].value
  /\ pc = "ad_loaded" =>
       /\ Len(data) = Len(clean)
       /\ \A j \in 1..Len(data) : data[j].indicator \notin exclude_values

\* A load after two excluded source rows and one kept row.
C10_Witness ==
  /\ pc = "ad_loaded"
  /\ Len(data) > 0
  /\ \E i, j \in 1..Len(source) :
       /\ i # j
       /\ source[i].indicator \in exclude_values
       /\ source[j].indicator \in exclude_values

\* C3: over two or more segments, a pair whose correlation is undefined stays
\* distinguishable from a pair of true zero correlation: in the matrix entry
\* of Table 2 and in the tier and the interpretation of the significance table.
ZeroTier(n) == get_significance(get_p_value(calculate_t_statistic(0, n), n - 2))
ZeroInterp(n) == get_strength_description(0, get_p_value(calculate_t_statistic(0, n), n - 2))
C3_UndefinedDistinguishable ==
  /\ (pc = "ad_done" /\ Len(pivoted.rows) >= 2) =>
       \A a, b \in Range(corr_indicators) :
          (a # b /\ Degenerate(pivoted, a, b)) => corr_matrix[a][b] # 0
  /\ (pc = "cs_done" /\ Len(pivoted.rows) >= 2) =>
       \A k \in 1..Len(results) :
          Degenerate(pivoted, results[k].ind1, results[k].ind2) =>
             /\ results[k].sig # ZeroTier(Len(pivoted.rows))
             /\ results[k].interp # ZeroInterp(Len(pivoted.rows))

\* C4: the reported correlation matrix of two or more segments is symmetric
\* and every diagonal entry is 1.0, also for a column with fewer than 2
\* values or zero variance.
IsOne(r) == ~r.nan /\ r.cov > 0 /\ r.cov * r.cov = r.vv
C4_SymmetricUnitDiagonal ==
  /\ (pc = "ad_done" /\ Len(pivoted.rows) >= 2) =>
       \A a, b \in Range(corr_indicators) :
          corr_matrix[a][b] = corr_matrix[b][a] /\ corr_matrix[a][a] = 100
  /\ (pc \in {"cs_corr", "cs_done"} /\ Len(pivoted.rows) >= 2) =>
       \A a, b \in Range(corr_indicators) :
          corr_matrix[a][b] = corr_matrix[b][a] /\ IsOne(corr_matrix[a][a])

\* C11: there is no partial success: a run that reports completion (the final
\* summary of pre.py, with its line 'Results exported to Excel') has had no
\* failing stage; a failing stage stops the run with its cause raised.
C11_NoPartialSuccess ==
  pc = "pre_done" =>
     /\ err = NoErr
     /\ "Error exporting" \notin Range(stdout)
     /\ "Error loading data" \notin Range(stdout)

\* C12: when the source is unreadable or lacks a column the script needs, the
\* load fails with an error raised to the caller, no table is returned and no
\* later stage runs on the source.
PreColumns == {"indicator", "EnglishName", "value", "Topic"}
AdColumns == {"cut", "subcut", "indicator", "value", "se", "N"}
Unusable(required) == ~disk.readable \/ ~(required \subseteq disk.cols)
C12_LoadFailsLoudly ==
  /\ (stdout # <<>> /\ Unusable(PreColumns)) =>
        (pc = "failed" /\ err.at = "load" /\ ~frame.loaded)
  /\ ((pc = "ad_loaded" \/ err.at = "load") /\ Unusable(AdColumns)) =>
        (pc = "failed" /\ data = <<>>)

\* C14: a sorted report table is in descending order of |t|, and two rows of
\* equal |t| (infinite, or equal after rounding) keep their enumeration order.
C14_StableDescending ==
  pc = "sorted" =>
     \A i, j \in 1..Len(results) :
        (i < j /\ results[i].tval # NaN /\ results[j].tval # NaN) =>
           /\ AbsT(results[i].tval) >= AbsT(results[j].tval)
           /\ AbsT(results[i].tval) = AbsT(results[j].tval) =>
                 results[i].idx < results[j].idx

\* C13: the wide table that the compute stage of a run uses is the one
\* pivoted in that run from the records loaded in that run, never a table
\* that an earlier run wrote.
C13_FreshWideTable ==
  pc \in {"cs_corr", "cs_done", "cs_sorted", "cs_detailed"} =>
     /\ data = [i \in 1..Len(clean) |->
                  [clean[i] EXCEPT !.value = to_numeric(clean[i].value)]]
     /\ ~HasDuplicates(drop_duplicates(FilterCorr(data)))
     /\ pivoted = dropna(Pivot(drop_duplicates(FilterCorr(data))), corr_indicators)

\* C15: for every number of segments, r = 1 gives t = +infinity and r = -1
\* gives t = -infinity; the p-value of an infinite t is exactly 0.0 for every
\* df, and its tier is '***'.
C15_UnitCorrelationBoundary ==
  pc = "stats" =>
     LET row == results[1]
     IN /\ row.r = 100 => (row.t.kind = "inf" /\ row.t.sgn = 1 /\ row.tval = Inf)
        /\ row.r = -100 => (row.t.kind = "inf" /\ row.t.sgn = -1 /\ row.tval = 0 - Inf)
        /\ row.t.kind = "inf" => (row.p = 0 /\ row.sig = "***")

C15_Witness ==
  /\ pc = "stats"
  /\ results[1].r = -100
  /\ results[1].tval = 0 - Inf
  /\ results[1].p = 0
  /\ results[1].sig = "***"

\* C16: every p-value gets exactly one tier by strict thresholds: '***' iff
\* p < 0.001, '**' iff 0.001 <= p < 0.01, '*' iff 0.01 <= p < 0.05, 'ns' iff
\* p >= 0.05 (p in units of 0.0005).
C16_TierThresholds ==
  (pc = "described" /\ results[1].p # NaN) =>
     LET p == results[1].p
         sig == results[1].sig
     IN /\ sig \in {"***", "**", "*", "ns"}
        /\ sig = "***" <=> p < 2
        /\ sig = "**" <=> (2 <= p /\ p < 20)
        /\ sig = "*" <=> (20 <= p /\ p < 100)
        /\ sig = "ns" <=> p >= 100

C16_Witness ==
  /\ pc = "described"
  /\ results[1].p = 20
  /\ results[1].sig = "*"

\* C17: the interpretation is '{strength} {direction} correlation, {phrase}':
\* strength by the strict ladder on |r| (> 0.70, > 0.50, > 0.30, else Weak),
\* direction positive iff r > 0, phrase the one paired with the tier of p.
Ladder(a) ==
  IF a > 70 THEN "Very strong" ELSE IF a > 50 THEN "Strong"
  ELSE IF a > 30 THEN "Moderate" ELSE "Weak"
Phrase(sig) ==
  CASE sig = "***" -> "highly significant"
    [] sig = "**" -> "significant"
    [] sig = "*" -> "marginally significant"
    [] OTHER -> "not significant"
C17_Interpretation ==
  (pc = "described" /\ results[1].r # NaN /\ results[1].p # NaN) =>
     LET r == results[1].r
     IN results[1].interp =
          <<Ladder(IF r < 0 THEN 0 - r ELSE r), " ",
            IF r > 0 THEN "positive" ELSE "negative", " correlation, ",
            Phrase(results[1].sig)>>

C17_Witness ==
  /\ pc = "described"
  /\ results[1].r = -70
  /\ results[1].p = 2
  /\ results[1].interp = <<"Strong", " ", "negative", " correlation, ", "significant">>

\* C18: a pair of the all-pairs table is flagged 'Yes' iff |t| is strictly
\* greater than the two-tailed 5% critical value for df = n - 2, the df of the
\* pair's p-value; otherwise it is flagged 'No'.
CriticalExceeded(t, df) ==
  /\ df >= 1
  /\ \/ t.kind = "inf"
     \/ t.kind = "fin" /\ (t.num * 1000) \div t.den > CriticalT2[df][1]
C18_SignificantFlag ==
  pc = "detail" =>
     LET row == detailed[1]
         df == row.n - 2
     IN /\ row.significant \in {"Yes", "No"}
        /\ row.significant = "Yes" <=> CriticalExceeded(row.t, df)
        /\ row.p = get_p_value(row.t, df)
        /\ (df >= 1 /\ row.t.kind # "nan") =>
              (row.significant = "Yes" <=> row.p < 100)

C18_Witness ==
  /\ pc = "detail"
  /\ detailed[1].n = MaxN
  /\ detailed[1].t.kind = "fin"
  /\ detailed[1].significant = "Yes"

\* C19: within a run every pair's t and p use the same n, the number of rows
\* of the wide table, and df = n - 2, whatever the number of rows in which
\* both indicators of the pair are present.
UsesN(row, n) ==
  /\ row.n = n
  /\ row.t = calculate_t_statistic(row.r, n)
  /\ row.p = get_p_value(row.t, n - 2)
CompleteRows(a, b) ==
  {i \in 1..Len(pivoted.rows) :
     pivoted.rows[i].vals[a] # NaN /\ pivoted.rows[i].vals[b] # NaN}
C19_TotalSampleSize ==
  /\ pc \in {"cs_done", "cs_sorted", "cs_detailed"} =>
        \A k \in 1..Len(results) : UsesN(results[k], Len(pivoted.rows))
  /\ pc = "cs_detailed" =>
        \A k \in 1..Len(detailed) : UsesN(detailed[k], Len(pivoted.rows))

C19_Witness ==
  /\ pc = "cs_detailed"
  /\ \E k \in 1..Len(detailed) :
       /\ Cardinality(CompleteRows(detailed[k].ind1, detailed[k].ind2))
            < Len(pivoted.rows)
       /\ detailed[k].t.kind = "fin"
       /\ detailed[k].t.num > 0
       /\ detailed[k].n = Len(pivoted.rows)

\* C20: after the load, each of value, se and N of every row is the missing
\* marker when its text is the period or any other text that is no number,
\* and the number the text parses to otherwise; the coercion adds and removes
\* no row (and leaves the other fields alone).
Numerals == {"1", "2", "3"}
NumberOf(t) == CHOOSE k \in 1..3 : <<"1", "2", "3">>[k] = t
Coerced(t) == IF t \in Numerals THEN NumberOf(t) ELSE NaN
C20_NumericCoercion ==
  pc = "ad_loaded" =>
     /\ Len(data) = Len(clean)
     /\ \A i \in 1..Len(data) :
          /\ data[i].value = Coerced(clean[i].value)
          /\ data[i].se = Coerced(clean[i].se)
          /\ data[i].N = Coerced(clean[i].N)
          /\ \A f \in {"cut", "subcut", "indicator", "Topic", "EnglishName"} :
                data[i][f] = clean[i][f]

C20_Witness ==
  /\ pc = "ad_loaded"
  /\ \E i \in 1..Len(data) :
       /\ clean[i].value = "x" /\ data[i].value = NaN
       /\ clean[i].se = "." /\ data[i].se = NaN
       /\ clean[i].N = "3" /\ data[i].N = 3

\* C21: extracting a segment, the Table 1 loop, the pivot, the row drop and
\* the correlation matrix leave the loaded record table as it was loaded, and
\* the correlation and significance steps leave the wide table as it was:
\* every stage returns a new table.
C21_StagesLeaveInputs ==
  [][/\ (pc \in {"ad_loaded", "ad_table1", "ad_pivoted", "ad_dropped"} => data' = data)
     /\ (pc \in {"ad_dropped", "cs_read", "cs_corr", "cs_done", "cs_sorted"}
           => pivoted' = pivoted)]_vars

\* The extractor has returned fewer rows than the loaded table holds.
C21_Witness ==
  /\ pc = "extracted"
  /\ Len(extracted.rows) > 0
  /\ Len(extracted.rows) < Len(data)

IsUnit(r) == ~r.nan /\ r.cov * r.cov = r.vv
C23_InfiniteOnlyAtUnit ==
  /\ pc \in {"cs_done", "cs_sorted", "cs_detailed"} =>
       \A i \in 1..Len(results) :
          results[i].t.kind = "inf"
            => IsUnit(corr_matrix[results[i].ind1][results[i].ind2])
  /\ pc = "cs_detailed" =>
       \A i \in 1..Len(detailed) :
          detailed[i].t.kind = "inf"
            => IsUnit(corr_matrix[detailed[i].ind1][detailed[i].ind2])

\* C24: over any sequence of runs of the significance script, a run that
\* finds Pivoted_Data.csv takes the file's table as its wide table, loads no
\* raw data and leaves the file as it is; a run that does not find it loads
\* the raw data and has written the file before it computes; the file, once
\* there, never changes, and every correlation matrix is computed from it,
\* whatever the raw record set has become.
C24_CachedWideTable ==
  [][/\ (pc = "idle" /\ pc' \in {"cs_read", "cs_loaded"} /\ csvFile # <<>>)
          => (pc' = "cs_read" /\ pivoted' = csvFile[1] /\ data' = <<>>)
     /\ (pc = "idle" /\ pc' \in {"cs_read", "cs_loaded"} /\ csvFile = <<>>)
          => (/\ pc' = "cs_loaded" /\ csvFile' = <<>>
              /\ Len(data') = Len(clean)
              /\ \A i \in 1..Len(clean) :
                    /\ Key(data'[i]) = Key(clean[i])
                    /\ data'[i].value = to_numeric(clean[i].value))
     /\ (csvFile # <<>> => csvFile' = csvFile)
     /\ (pc' = "cs_corr" /\ pc # "cs_corr")
          => (/\ csvFile # <<>>
              /\ pivoted = csvFile[1]
              /\ corr_matrix' = CorrMatrix(csvFile[1]))]_vars

\* A later run computes from the file of an earlier run although the raw
\* record set has changed and would now pivot to another table.
C24_Witness ==
  /\ pc = "cs_corr"
  /\ data = <<>>
  /\ csvFile # <<>> /\ pivoted = csvFile[1]
  /\ Pivot(drop_duplicates(FilterCorr(LoadData(clean)))).rows # pivoted.rows

\* C25: for every input table, one with repeated (cut, subcut, indicator)
\* keys included, the cut-restricted pivot of old/short_ana_2.py gives the
\* wide rows that the deduplicating pivot of analyze_data.py gives for the
\* segments whose cut is 'All', 'Size' or 'Exporter Type'.
RestrictedRows(wide) ==
  Where(wide.rows, LAMBDA i : wide.rows[i].cut \in {"All", "Size", "Exporter Type"})
C25_SameAsRestrictedDedup ==
  (pc = "sa_pivoted" \/ (pc = "failed" /\ err.at = "pivot")) =>
     /\ err = NoErr
     /\ pivoted.rows = RestrictedRows(Pivot(drop_duplicates(FilterCorr(data))))

\* C26: in Table 1, for each indicator and each of the three size segments,
\* the SE cell is blank exactly when that segment's own se is missing and is
\* that segment's se otherwise, whatever the se of the other segments.
OwnSe(ind, k) == FirstOf(SizeRows(data, k), ind).se
C26_SeOfOwnSegment ==
  pc = "ad_table1" =>
    \A n \in 1..Len(table1) :
       LET ind == inn_indicators[n]
       IN /\ table1[n].s_se = BlankIfNaN(OwnSe(ind, 1))
          /\ table1[n].m_se = BlankIfNaN(OwnSe(ind, 2))
          /\ table1[n].l_se = BlankIfNaN(OwnSe(ind, 3))

\* C27: no row of the wide table has an empty subcut: every row of the file
\* whose subcut field is empty is excluded before deduplication and pivoting.
C27_NoEmptySubcut ==
  pc \in {"ad_pivoted", "ad_dropped"} =>
    \A k \in 1..Len(pivoted.rows) : pivoted.rows[k].subcut \notin {"", NaNText}

\* C28: make_clean_file writes exactly one row for each input row that is not
\* excluded, in input order, with empty Topic and EnglishName when the code
\* has no lookup entry: the join keeps the row count for every lookup table.
KeptRows == Exclude(StripIndicator(source))
C28_OneRowPerInput ==
  (pc = "idle" /\ source # <<>>) =>
     /\ Len(clean) = Len(KeptRows)
     /\ \A i \in 1..Len(clean) :
           /\ Key(clean[i]) = Key(KeptRows[i])
           /\ clean[i].value = KeptRows[i].value
           /\ (\A j \in 1..Len(lookup) :
                  RemoveSpaces(lookup[j].FieldName) # clean[i].indicator)
                => (clean[i].Topic = "" /\ clean[i].EnglishName = "")

\* C29: filter_country_contains_viet writes the input header and then
\* exactly the input rows whose country field, lowercased, contains
\* 'viet nam2023', each once, in input order and with unchanged fields.
HasViet(row) ==
  LET c == ColumnOf(converted.header, "country")
  IN c <= Len(row) /\ Contains(Lower(row[c]), viet_nam2023)
C29_ExactlyTheVietRows ==
  (pc = "filtered" \/ (pc = "failed" /\ err.at = "filter")) =>
     /\ err = NoErr
     /\ vietnam.header = converted.header
     /\ vietnam.rows = Where(converted.rows, LAMBDA i : HasViet(converted.rows[i]))

\* C30: the all-pairs table has exactly one row for each unordered pair of
\* distinct indicator codes (k(k-1)/2 rows for k codes), no self-pair and no
\* pair in both orders, and every key relationship is one of these pairs
\* with the same r, t and tier in both tables.
PairOf(row) == {row.ind1, row.ind2}
C30_OneRowPerPair ==
  pc = "cs_detailed" =>
    LET codes == DOMAIN corr_matrix
        k == Cardinality(codes)
    IN /\ 2 * Len(detailed) = k * (k - 1)
       /\ \A i \in 1..Len(detailed) : detailed[i].ind1 # detailed[i].ind2
       /\ \A a, b \in codes :
             a # b => Cardinality({i \in 1..Len(detailed) : PairOf(detailed[i]) = {a, b}}) = 1
       /\ \A j \in 1..Len(results) :
             \E i \in 1..Len(detailed) :
                /\ PairOf(detailed[i]) = PairOf(results[j])
                /\ detailed[i].r = results[j].r
                /\ detailed[i].t = results[j].t
                /\ detailed[i].tval = results[j].tval
                /\ detailed[i].sig = results[j].sig

\* Three all-pairs rows, and a key relationship listed in the opposite
\* orientation of its all-pairs row, with a finite non-zero t.
C30_Witness ==
  /\ pc = "cs_detailed"
  /\ Len(detailed) = 3 /\ Len(results) = 3
  /\ \E j \in 1..Len(results) : \E i \in 1..Len(detailed) :
        /\ results[j].ind1 = detailed[i].ind2
        /\ results[j].ind2 = detailed[i].ind1
        /\ results[j].t.kind = "fin" /\ results[j].t.num > 0

====
